---------------------------- MODULE Spec2Model ----------------------------
(***************************************************************************)
(* docs-to-md: docs2md/docs2md.py.                                         *)
(*                                                                         *)
(* yield_docstrings(source, module, import_file) is a generator.  Its      *)
(* first resumption reads the source, runs parse_docstrings to exhaustion  *)
(* inside sorted(), and yields the first chunk; every later resumption     *)
(* yields one more chunk.  parse_docstrings walks the syntax tree with     *)
(* ast.walk (breadth first), yields one record per Module / ClassDef /     *)
(* FunctionDef / AsyncFunctionDef node and delegates every node to         *)
(* get_imports, which writes the import name to the optional sink and      *)
(* yields one record per Import / ImportFrom node.                         *)
(*                                                                         *)
(* The parser (ast.parse) is external.  A source is represented by what    *)
(* the parser returns for it: the statement nodes in source order with     *)
(* their parent, and the physical lines of the text.  Line numbers follow  *)
(* Python >= 3.8, where the lineno of a statement is its first line (the   *)
(* doctest of parse_docstrings pins this: here_is_cool is reported at 12). *)
(* Expression-level nodes and statements that hold no declaration are      *)
(* visited by ast.walk but yield nothing; they are represented by the      *)
(* kind "Other".                                                           *)
(***************************************************************************)
EXTENDS Integers, Sequences, FiniteSets, TLC

\* Bounds of the explored inputs.
MaxNodes == 2      \* statements of a source, rich shapes of statement
DeepNodes == 3     \* statements of a source, plain shapes only
MaxSig == 3        \* lines of a multi-line signature
MaxAliases == 2    \* names of a multi-name import statement
MaxNameLen == 4    \* characters of a file name or module argument

None == <<>>
Some(x) == <<x>>

RECURSIVE Concat(_)
\* ''.join(seq) for a sequence of strings.
Concat(seq) == IF seq = <<>> THEN "" ELSE Head(seq) \o Concat(Tail(seq))

RECURSIVE Join(_, _)
\* sep.join(seq)
Join(sep, seq) ==
  IF seq = <<>> THEN ""
  ELSE IF Len(seq) = 1 THEN seq[1]
  ELSE seq[1] \o sep \o Join(sep, Tail(seq))

RECURSIVE Spaces(_)
Spaces(k) == IF k <= 0 THEN "" ELSE "    " \o Spaces(k - 1)

Min(S) == CHOOSE x \in S : \A y \in S : x <= y

----------------------------------------------------------------------------
(* The syntax tree.  Node 1 is the Module; nodes 2.. are statements in     *)
(* source order (pre-order), each with the index of its parent.            *)

FUNCTION_KINDS == {"FunctionDef", "AsyncFunctionDef"}
DECLARE_KINDS == FUNCTION_KINDS \cup {"ClassDef", "Module"}
IMPORT_KINDS == {"ImportFrom", "Import"}

ModuleNode(d) ==
  [kind |-> "Module", parent |-> 0, sig |-> 0, doc |-> d, inline |-> FALSE,
   names |-> <<>>, lineno |-> 0]

\* Nodes a new last statement can hang under: the open blocks at the end of
\* the text, i.e. the last node and its ancestors that have a block body.
RECURSIVE OpenBlocks(_, _)
OpenBlocks(t, i) ==
  IF i = 0 THEN {}
  ELSE (IF t[i].kind \in DECLARE_KINDS /\ ~t[i].inline THEN {i} ELSE {})
       \cup OpenBlocks(t, t[i].parent)

\* The statements that can be written as node i.
Shapes(i) ==
  LET id == ToString(i) IN
  {[kind |-> "ClassDef", parent |-> 0, sig |-> 1, doc |-> d, inline |-> FALSE,
    names |-> <<>>, lineno |-> 0] : d \in BOOLEAN}
  \cup
  {[kind |-> "FunctionDef", parent |-> 0, sig |-> s, doc |-> d,
    inline |-> FALSE, names |-> <<>>, lineno |-> 0]
     : s \in {1, MaxSig}, d \in BOOLEAN}
  \cup
  {[kind |-> "FunctionDef", parent |-> 0, sig |-> s, doc |-> FALSE,
    inline |-> TRUE, names |-> <<>>, lineno |-> 0] : s \in {1, MaxSig}}
  \cup
  {[kind |-> "AsyncFunctionDef", parent |-> 0, sig |-> 1, doc |-> d,
    inline |-> FALSE, names |-> <<>>, lineno |-> 0] : d \in BOOLEAN}
  \cup
  {[kind |-> "ImportFrom", parent |-> 0, sig |-> 1, doc |-> FALSE,
    inline |-> FALSE, names |-> m, lineno |-> 0]
     : m \in {None, Some("pkg" \o id \o ".sub")}}
  \cup
  {[kind |-> "Import", parent |-> 0, sig |-> 1, doc |-> FALSE, inline |-> FALSE,
    names |-> [j \in 1..k |-> "m" \o id \o ".n" \o ToString(j)], lineno |-> 0]
     : k \in {1, MaxAliases}}
  \cup
  {[kind |-> "Other", parent |-> 0, sig |-> 1, doc |-> FALSE, inline |-> FALSE,
    names |-> <<>>, lineno |-> 0]}

\* The plain ones among them: no docstring, one-line signature, one name.
PlainShapes(i) ==
  {s \in Shapes(i) :
     /\ s.kind \in {"ClassDef", "FunctionDef", "Import", "Other"}
     /\ ~s.doc /\ ~s.inline /\ s.sig = 1 /\ Len(s.names) <= 1}

\* The shapes that are combined with each other in short sources: all but
\* three of the plain ones, which are combined in the longer plain sources.
RichShapes(i) ==
  {s \in Shapes(i) :
     \/ s \notin PlainShapes(i)
     \/ s.kind = "ClassDef"}

RECURSIVE Trees(_, _)
\* The syntax trees with exactly n nodes, of rich shapes or of plain ones.
Trees(n, rich) ==
  IF n = 1 THEN {<<ModuleNode(d)>> : d \in (IF rich THEN BOOLEAN ELSE {FALSE})}
  ELSE {Append(x[1], [x[2] EXCEPT !.parent = x[3]])
          : x \in {y \in Trees(n - 1, rich)
                          \X (IF rich THEN RichShapes(n) ELSE PlainShapes(n))
                          \X (1..(n - 1))
                     : y[3] \in OpenBlocks(y[1], n - 1)}}

Children(t, i) == {c \in 1..Len(t) : t[c].parent = i}

RECURSIVE Depth(_, _)
Depth(t, i) == IF t[i].parent = 0 THEN 0 ELSE 1 + Depth(t, t[i].parent)

\* Indentation level of the statement that is node i.
Indent(t, i) == IF i = 1 THEN 0 ELSE Depth(t, i) - 1

NodeName(t, i) ==
  IF t[i].kind = "ClassDef" THEN "C" \o ToString(i) ELSE "f" \o ToString(i)

NodeDocLine(i) == "doc" \o ToString(i)

\* The signature lines of a class or function.  An inline function has its
\* body on the last of them.
Header(t, i) ==
  LET ind == Indent(t, i)
      kw == IF t[i].kind = "ClassDef" THEN "class "
            ELSE IF t[i].kind = "AsyncFunctionDef" THEN "async def "
            ELSE "def "
      nm == NodeName(t, i)
      body == IF t[i].inline THEN " pass" ELSE ""
  IN IF t[i].kind = "ClassDef"
       THEN <<[indent |-> ind, text |-> kw \o nm \o ":"]>>
     ELSE IF t[i].sig = 1
       THEN <<[indent |-> ind, text |-> kw \o nm \o "():" \o body]>>
     ELSE [j \in 1..t[i].sig |->
             IF j = 1 THEN [indent |-> ind, text |-> kw \o nm \o "("]
             ELSE IF j = t[i].sig
               THEN [indent |-> ind, text |-> "):" \o body]
             ELSE [indent |-> ind + 1, text |-> "a" \o ToString(j) \o ","]]

\* The physical lines node i contributes before the lines of its children.
NodeLines(t, i) ==
  LET ind == Indent(t, i)
      docline(k) == <<[indent |-> k,
                       text |-> "\"\"\"" \o NodeDocLine(i) \o "\"\"\""]>>
  IN CASE t[i].kind = "Module" ->
            IF t[i].doc THEN docline(0) ELSE <<>>
       [] t[i].kind \in {"ClassDef"} \cup FUNCTION_KINDS ->
            Header(t, i)
            \o (IF t[i].doc THEN docline(ind + 1) ELSE <<>>)
            \o (IF ~t[i].doc /\ ~t[i].inline /\ Children(t, i) = {}
                THEN <<[indent |-> ind + 1, text |-> "pass"]>> ELSE <<>>)
       [] t[i].kind = "ImportFrom" ->
            <<[indent |-> ind,
               text |-> "from " \o (IF t[i].names = None THEN "."
                                    ELSE t[i].names[1]) \o " import x"]>>
       [] t[i].kind = "Import" ->
            <<[indent |-> ind, text |-> "import " \o Join(", ", t[i].names)]>>
       [] OTHER -> <<[indent |-> ind, text |-> "x" \o ToString(i) \o " = 1"]>>

RECURSIVE LinesUpTo(_, _)
\* The text of nodes 1..i, as physical lines.
LinesUpTo(t, i) ==
  IF i = 0 THEN <<>> ELSE LinesUpTo(t, i - 1) \o NodeLines(t, i)

\* source.splitlines()
SourceLines(t) == LinesUpTo(t, Len(t))

\* The tree with the lineno attribute the parser gives every statement: the
\* line its text starts on.  A Module has no such attribute, for which the
\* program reads 0.
Located(t) ==
  LET count == [i \in 1..Len(t) |-> Len(NodeLines(t, i))]
      RECURSIVE before(_)
      before(i) == IF i = 1 THEN 0 ELSE count[i - 1] + before(i - 1)
  IN [i \in 1..Len(t) |->
        [t[i] EXCEPT !.lineno = IF i = 1 THEN 0 ELSE before(i) + 1]]

\* getattr(node, 'lineno', 0)
NodeLineno(t, i) == t[i].lineno

\* node.body[0].lineno: the first statement of the body, which is the
\* docstring when there is one.
Body0Lineno(t, i) ==
  IF t[i].inline THEN NodeLineno(t, i) + t[i].sig - 1
  ELSE NodeLineno(t, i) + t[i].sig


----------------------------------------------------------------------------
(* Library functions the program calls.                                    *)

\* ast.get_docstring(node, clean=True): the cleaned docstring, or None.
GetDocstring(t, i) == IF t[i].doc THEN Some(NodeDocLine(i)) ELSE None

\* textwrap.dedent of the joined lines: the common margin is removed.
Dedent(lines) ==
  IF lines = <<>> THEN ""
  ELSE LET margin == Min({lines[k].indent : k \in 1..Len(lines)})
       IN Join("\n", [k \in 1..Len(lines) |->
                        Spaces(lines[k].indent - margin) \o lines[k].text])

\* p.rfind(c) on a sequence of characters, 0 when c does not occur.
RFind(p, c) ==
  LET hits == {k \in 1..Len(p) : p[k] = c}
  IN IF hits = {} THEN 0 ELSE CHOOSE k \in hits : \A m \in hits : m <= k

\* posixpath.basename
basename(p) == SubSeq(p, RFind(p, "/") + 1, Len(p))

\* posixpath.splitext(p)[0]: the extension starts at the last dot, unless
\* that dot is one of the leading dots of the last component.
splitext0(p) ==
  LET sepIndex == RFind(p, "/")
      dotIndex == RFind(p, ".")
  IN IF dotIndex > sepIndex
        /\ \E k \in (sepIndex + 1)..(dotIndex - 1) : p[k] # "."
     THEN SubSeq(p, 1, dotIndex - 1)
     ELSE p

----------------------------------------------------------------------------
(* Tables and pure steps of docs2md.py.                                    *)

_NODE_TYPES(kind) ==
  CASE kind = "FunctionDef" -> "\n### Function"
    [] kind = "AsyncFunctionDef" -> "\n### Async Function"
    [] kind = "ClassDef" -> "\n## Class"
    [] kind = "Module" -> "# Module"
    [] kind = "ImportFrom" -> "\nImports"
    [] kind = "Import" -> "\nImports"

UNDOCUMENTED == "**UNDOCUMENTED**"

\* The prefix of a sink line.  The source writes U+251C (BOX DRAWINGS LIGHT
\* VERTICAL AND RIGHT); the two ASCII characters stand for it here.
TreeBranch == "|-"

\* The code fence.  The source writes three U+0060 (GRAVE ACCENT), which a
\* string of this language cannot hold; three tildes stand for them.
Fence == "~~~"

\* Faulty variant: the slice of doc2md.py, which runs through the anchor line.
FunctionDeclarationThroughAnchor(t, i, source_lines, lineno) ==
  IF NodeLineno(t, i) = lineno
  THEN SubSeq(source_lines, lineno, lineno)
  ELSE SubSeq(source_lines, NodeLineno(t, i), lineno)

\* source_lines[node.lineno - 1:lineno] when the first statement of the body
\* is on the line of the def, source_lines[node.lineno - 1:lineno - 1]
\* otherwise.
FunctionDeclaration(t, i, source_lines, lineno) ==
  IF NodeLineno(t, i) = lineno
  THEN SubSeq(source_lines, lineno, lineno)
  ELSE SubSeq(source_lines, NodeLineno(t, i), lineno - 1)

\* Faulty variant: the lines are counted from 0.
DeclLinenoFromZero(t, i) ==
  IF t[i].kind \in FUNCTION_KINDS THEN Body0Lineno(t, i) - 1
  ELSE IF t[i].kind = "Module" THEN 0
  ELSE NodeLineno(t, i) - 1

\* lineno of the record of a declaration node.
DeclLineno(t, i) ==
  IF t[i].kind \in FUNCTION_KINDS THEN Body0Lineno(t, i)
  ELSE IF t[i].kind = "Module" THEN 0
  ELSE NodeLineno(t, i)

\* Faulty variant: a missing docstring is left empty.
DeclDocstringNoSentinel(t, i, source_lines) ==
  LET d == GetDocstring(t, i)
      docstring == IF d = None THEN "" ELSE d[1]
  IN IF t[i].kind \in FUNCTION_KINDS
     THEN Fence \o "python\n"
          \o Dedent(FunctionDeclaration(t, i, source_lines, Body0Lineno(t, i)))
          \o "\n" \o Fence \o "\n" \o docstring
     ELSE docstring

\* docstring of the record of a declaration node.
DeclDocstring(t, i, source_lines) ==
  LET d == GetDocstring(t, i)
      docstring == IF d = None \/ d = Some("") THEN UNDOCUMENTED ELSE d[1]
  IN IF t[i].kind \in FUNCTION_KINDS
     THEN Fence \o "python\n"
          \o Dedent(FunctionDeclaration(t, i, source_lines, Body0Lineno(t, i)))
          \o "\n" \o Fence \o "\n" \o docstring
     ELSE docstring

\* The tuple parse_docstrings yields for a declaration node.
DeclRecord(t, i, source_lines) ==
  [node |-> i,
   name |-> IF t[i].kind = "Module" THEN None ELSE Some(NodeName(t, i)),
   lineno |-> DeclLineno(t, i),
   docstring |-> DeclDocstring(t, i, source_lines)]

\* Faulty variant: the names of a plain import are joined with ", ".
ImportsSpaced(t, i) ==
  IF t[i].kind = "ImportFrom"
  THEN (IF t[i].names = None \/ t[i].names = Some("") THEN "?"
        ELSE t[i].names[1])
  ELSE Join(", ", t[i].names)

\* The local variable imports of get_imports.
ImportsOf(t, i) ==
  IF t[i].kind = "ImportFrom"
  THEN (IF t[i].names = None \/ t[i].names = Some("") THEN "?"
        ELSE t[i].names[1])
  ELSE Join(",", t[i].names)

\* The tuple get_imports yields for an import node.
ImportRecord(t, i) ==
  [node |-> i, name |-> Some(ImportsOf(t, i)), lineno |-> 0, docstring |-> ""]

SinkLine(imports) == TreeBranch \o imports \o "\n"

\* Faulty variant: the record goes before the records of the same key.
InsertBeforeEqual(s, r) ==
  LET k == Cardinality({m \in 1..Len(s) : s[m].lineno < r.lineno})
  IN SubSeq(s, 1, k) \o <<r>> \o SubSeq(s, k + 1, Len(s))

\* Where a record goes in an already sorted list: behind every record whose
\* key is not greater (sorted() is stable).
InsertByLineno(s, r) ==
  LET k == Cardinality({m \in 1..Len(s) : s[m].lineno <= r.lineno})
  IN SubSeq(s, 1, k) \o <<r>> \o SubSeq(s, k + 1, Len(s))

\* Faulty variant: the records are left in the order of their discovery.
Unsorted(recs) == recs

RECURSIVE SortedByLineno(_)
\* sorted(records, key=lambda x: x[2])
SortedByLineno(recs) ==
  IF recs = <<>> THEN <<>>
  ELSE InsertByLineno(SortedByLineno(SubSeq(recs, 1, Len(recs) - 1)),
                      recs[Len(recs)])

RECURSIVE GroupBy(_, _)
\* itertools.groupby(recs, key=type heading): the runs of equal keys.
GroupBy(t, recs) ==
  IF recs = <<>> THEN <<>>
  ELSE LET g == GroupBy(t, SubSeq(recs, 1, Len(recs) - 1))
           r == recs[Len(recs)]
           key == _NODE_TYPES(t[r.node].kind)
       IN IF g # <<>> /\ g[Len(g)].key = key
          THEN [g EXCEPT ![Len(g)].items = Append(@, r)]
          ELSE Append(g, [key |-> key, items |-> <<r>>])

\* name if name else module
DisplayName(name, mod) ==
  IF name = None \/ name = Some("") THEN Concat(mod) ELSE name[1]

\* lineno or '?'
LinenoText(lineno) == IF lineno = 0 THEN "?" ELSE ToString(lineno)


----------------------------------------------------------------------------
(* parse_docstrings and get_imports.  Both are generators that sorted()    *)
(* drives to exhaustion within the first next() of yield_docstrings; the   *)
(* state they thread through is the deque of ast.walk, the tuples yielded  *)
(* so far, the lines written to the sink, and the order of both effects.   *)

\* Faulty variant: the write is not guarded by the presence of a sink.
get_imports_unguarded(t, node, file_to_save, st) ==
  IF t[node].kind \notin IMPORT_KINDS THEN st
  ELSE LET imports == ImportsOf(t, node)
           written == [st EXCEPT !.sink = Append(@, SinkLine(imports)),
                                 !.events = Append(@, <<"write", node>>)]
       IN [written EXCEPT !.records = Append(@, ImportRecord(t, node)),
                          !.events = Append(@, <<"yield_res", node>>)]

\* get_imports(node, file_to_save): nothing for a node that is no import;
\* for an import, the write to the sink (when there is one), then the yield.
get_imports(t, node, file_to_save, st) ==
  IF t[node].kind \notin IMPORT_KINDS THEN st
  ELSE LET imports == ImportsOf(t, node)
           written == IF file_to_save
                      THEN [st EXCEPT !.sink = Append(@, SinkLine(imports)),
                                      !.events = Append(@, <<"write", node>>)]
                      ELSE st
       IN [written EXCEPT !.records = Append(@, ImportRecord(t, node)),
                          !.events = Append(@, <<"yield_res", node>>)]

RECURSIVE Ascending(_)
\* The members of a set of numbers, smallest first.
Ascending(S) ==
  IF S = {} THEN <<>> ELSE <<Min(S)>> \o Ascending(S \ {Min(S)})

RECURSIVE WalkTopLevel(_, _, _, _)
\* Faulty variant: only the module and its own statements are visited.
WalkTopLevel(t, source_lines, file_to_save, st) ==
  IF st.todo = <<>> THEN st
  ELSE LET node == Head(st.todo)
           popped == [st EXCEPT
                        !.todo = Tail(@) \o (IF node = 1
                                             THEN Ascending(Children(t, node))
                                             ELSE <<>>)]
           declared ==
             IF t[node].kind \in DECLARE_KINDS
             THEN [popped EXCEPT
                     !.records = Append(@, DeclRecord(t, node, source_lines)),
                     !.events = Append(@, <<"yield", node>>)]
             ELSE popped
       IN WalkTopLevel(t, source_lines, file_to_save,
                       get_imports(t, node, file_to_save, declared))

RECURSIVE WalkLoop(_, _, _, _)
\* for n in ast.walk(tree): ast.walk pops the leftmost node of its deque and
\* appends the children of that node; the body of the loop yields the tuple
\* of a declaration node and then delegates to get_imports.
WalkLoop(t, source_lines, file_to_save, st) ==
  IF st.todo = <<>> THEN st
  ELSE LET node == Head(st.todo)
           popped == [st EXCEPT
                        !.todo = Tail(@) \o Ascending(Children(t, node))]
           declared ==
             IF t[node].kind \in DECLARE_KINDS
             THEN [popped EXCEPT
                     !.records = Append(@, DeclRecord(t, node, source_lines)),
                     !.events = Append(@, <<"yield", node>>)]
             ELSE popped
       IN WalkLoop(t, source_lines, file_to_save,
                   get_imports(t, node, file_to_save, declared))

\* parse_docstrings(source, import_file) run to exhaustion, for a source
\* that parses.
parse_docstrings(t, file_to_save) ==
  LET source_lines == SourceLines(t)
  IN WalkLoop(t, source_lines, file_to_save,
              [todo |-> <<1>>, records |-> <<>>, sink |-> <<>>,
               events |-> <<>>])

----------------------------------------------------------------------------
(* The run of one call yield_docstrings(source, module, import_file) and   *)
(* of the consumer that iterates over it.                                  *)

VARIABLES
  tree,            \* what ast.parse returns for the source text
  parses,          \* whether ast.parse accepts the source text
  is_file,         \* hasattr(source, 'read')
  filename,        \* the name attribute of a file-like source, or None
  module_arg,      \* the module argument of the call
  module,          \* the local variable module, reassigned for a file
  import_file,     \* whether a sink was passed
  pc,              \* where the generator stands
  requested,       \* number of next() calls of the consumer so far
  records,         \* the tuples parse_docstrings has yielded, in order
  sink,            \* the lines written to import_file, in order
  events,          \* the writes and yields of the extraction, in order
  iter_docstrings, \* the sorted list
  grouped,         \* the runs groupby makes of it
  g, j,            \* position in the groups and in the current group
  first_import,
  out,             \* the chunks delivered to the consumer
  out_of,          \* for each chunk, what it is a rendering of
  just_print,      \* _mini_main: print the chunks or write them to the .md
  mm,              \* _mini_main: where it stands ("direct": not involved)
  emitted            \* _mini_main: the text printed or written to the .md

vars == <<tree, parses, is_file, filename, module_arg, module, import_file,
          pc, requested, records, sink, events, iter_docstrings, grouped,
          g, j, first_import, out, out_of, just_print, mm, emitted>>

inputs == <<tree, parses, is_file, filename, module_arg, import_file,
            just_print>>
caller == <<mm, emitted>>
extraction == <<records, sink, events>>
sorting == <<iter_docstrings, grouped>>

\* module='<string>'
DefaultModule == <<"<string>">>

PathChars == {"a", "/", "."}

RECURSIVE PathsOfLen(_)
PathsOfLen(k) ==
  IF k = 0 THEN {<<>>}
  ELSE {Append(p, c) : p \in PathsOfLen(k - 1), c \in PathChars}

Paths == UNION {PathsOfLen(k) : k \in 0..MaxNameLen}

\* The generator object exists and has not run.
Created ==
  /\ pc = "created" /\ requested = 0
  /\ records = <<>> /\ sink = <<>> /\ events = <<>>
  /\ iter_docstrings = <<>> /\ grouped = <<>> /\ g = 0 /\ j = 0
  /\ first_import = FALSE
  /\ out = <<>> /\ out_of = <<>>

\* yield_docstrings is called directly, not through _mini_main.
Direct == mm = "direct" /\ just_print = FALSE /\ emitted = ""

\* A string source with the default module name, with and without a sink:
\* every source of up to MaxNodes statements of the rich shapes, every source
\* of up to DeepNodes plain statements, and a source that does not parse.

Init ==
  /\ Created /\ Direct
  /\ is_file = FALSE /\ filename = None
  /\ module_arg = DefaultModule /\ module = module_arg
  /\ import_file \in BOOLEAN
  /\ \/ parses = TRUE /\ \E k \in 1..(MaxNodes + 1) :
                             \E t \in Trees(k, TRUE) : tree = Located(t)
     \/ parses = TRUE /\ \E k \in 2..(DeepNodes + 1) :
                             \E t \in Trees(k, FALSE) : tree = Located(t)
     \/ parses = FALSE /\ tree = <<ModuleNode(FALSE)>>

\* Faulty variant: the directory is not taken off the file name.
ResolvedModuleKeepsDir ==
  IF is_file
  THEN splitext0(IF filename # None THEN filename[1] ELSE module)
  ELSE module

\* The module name after the first lines of yield_docstrings.
ResolvedModule ==
  IF is_file
  THEN splitext0(basename(IF filename # None THEN filename[1] ELSE module))
  ELSE module

\* The first next() up to the first yield, for a source that parses: the
\* source is read, parse_docstrings is run to exhaustion by sorted(), and
\* groupby is set up.
RunExtraction ==
  /\ requested' = 1
  /\ module' = ResolvedModule
  /\ LET st == parse_docstrings(tree, import_file)
         srt == SortedByLineno(st.records)
     IN /\ records' = st.records
        /\ sink' = sink \o st.sink
        /\ events' = st.events
        /\ iter_docstrings' = srt
        /\ grouped' = GroupBy(tree, srt)
  /\ first_import' = TRUE
  /\ g' = 1 /\ j' = 1
  /\ pc' = "render"
  /\ UNCHANGED <<inputs, out, out_of>>

\* The first next() of the consumer on a source that parses.
Start ==
  /\ pc = "created" /\ parses
  /\ RunExtraction

\* Faulty variant: the parse error is swallowed and the extraction goes on with
\* what was parsed.
StartSwallows ==
  /\ pc = "created" /\ ~parses
  /\ RunExtraction

\* The first next() on a source that does not parse: ast.parse raises
\* SyntaxError out of both generators.
StartRaises ==
  /\ pc = "created" /\ ~parses
  /\ requested' = 1
  /\ module' = ResolvedModule
  /\ pc' = "raised"
  /\ UNCHANGED <<inputs, extraction, sorting, g, j, first_import, out, out_of>>

\* The generator runs between a next() of the consumer and the chunk (or
\* the end) that answers it.
Running == requested > Len(out)

type_ == grouped[g].key
Cur == grouped[g].items[j]
IsImportType == type_ \in {_NODE_TYPES("ImportFrom"), _NODE_TYPES("Import")}

\* Faulty variant: the generator goes on to the next yield without having
\* been asked.
DeliverUnasked(chunk, role) ==
  /\ requested' = requested
  /\ out' = Append(out, chunk)
  /\ out_of' = Append(out_of, <<role, Cur.node>>)

\* yield chunk.  When the generator was suspended, the step includes the
\* next() of the consumer that resumes it.
Deliver(chunk, role) ==
  /\ requested' = IF Running THEN requested ELSE requested + 1
  /\ out' = Append(out, chunk)
  /\ out_of' = Append(out_of, <<role, Cur.node>>)

\* yield f"{type_} '{name}'\n"
YieldModuleHeading ==
  /\ pc = "render" /\ g <= Len(grouped)
  /\ type_ = _NODE_TYPES("Module")
  /\ Deliver(type_ \o " '" \o DisplayName(Cur.name, module) \o "'\n", "heading")
  /\ pc' = "body"
  /\ UNCHANGED <<inputs, module, extraction, sorting, g, j, first_import>>

\* Faulty variant: the flag is never cleared.
YieldImportsHeadingAgain ==
  /\ pc = "render" /\ g <= Len(grouped)
  /\ IsImportType /\ first_import
  /\ Deliver("## Imports\n", "imports_heading")
  /\ pc' = "bullet"
  /\ UNCHANGED <<inputs, module, extraction, sorting, g, j, first_import>>

\* yield "## Imports\n"
YieldImportsHeading ==
  /\ pc = "render" /\ g <= Len(grouped)
  /\ IsImportType /\ first_import
  /\ first_import' = FALSE
  /\ Deliver("## Imports\n", "imports_heading")
  /\ pc' = "bullet"
  /\ UNCHANGED <<inputs, module, extraction, sorting, g, j>>

\* Faulty variant: the line of an import is written to the sink again when
\* its bullet is rendered.
YieldBulletWrites ==
  /\ \/ pc = "bullet"
     \/ pc = "render" /\ g <= Len(grouped) /\ IsImportType /\ ~first_import
  /\ Deliver("* " \o DisplayName(Cur.name, module), "bullet")
  /\ pc' = "body"
  /\ sink' = IF import_file THEN Append(sink, SinkLine(Cur.name[1])) ELSE sink
  /\ UNCHANGED <<inputs, module, records, events, sorting, g, j, first_import>>

\* yield f"* {name}"
YieldBullet ==
  /\ \/ pc = "bullet"
     \/ pc = "render" /\ g <= Len(grouped) /\ IsImportType /\ ~first_import
  /\ Deliver("* " \o DisplayName(Cur.name, module), "bullet")
  /\ pc' = "body"
  /\ UNCHANGED <<inputs, module, extraction, sorting, g, j, first_import>>

\* yield f"{type_} '{name}'\nline {lineno or '?'}\n\n"
YieldDeclHeading ==
  /\ pc = "render" /\ g <= Len(grouped)
  /\ type_ # _NODE_TYPES("Module") /\ ~IsImportType
  /\ Deliver(type_ \o " '" \o DisplayName(Cur.name, module) \o "'\nline "
               \o LinenoText(Cur.lineno) \o "\n\n", "heading")
  /\ pc' = "body"
  /\ UNCHANGED <<inputs, module, extraction, sorting, g, j, first_import>>

\* Faulty variant: the body chunk is the docstring without the newline.
YieldBodyBare ==
  /\ pc = "body"
  /\ Deliver(Cur.docstring, "body")
  /\ IF j < Len(grouped[g].items)
     THEN g' = g /\ j' = j + 1
     ELSE g' = g + 1 /\ j' = 1
  /\ pc' = "render"
  /\ UNCHANGED <<inputs, module, extraction, sorting, first_import>>

\* yield f"{docstring}\n" or '\n', then on to the next tuple.
YieldBody ==
  /\ pc = "body"
  /\ Deliver(Cur.docstring \o "\n", "body")
  /\ IF j < Len(grouped[g].items)
     THEN g' = g /\ j' = j + 1
     ELSE g' = g + 1 /\ j' = 1
  /\ pc' = "render"
  /\ UNCHANGED <<inputs, module, extraction, sorting, first_import>>

\* The groups are exhausted: the generator returns and the next() of the
\* consumer ends with StopIteration.
Return ==
  /\ pc = "render" /\ g > Len(grouped)
  /\ requested' = IF Running THEN requested ELSE requested + 1
  /\ pc' = "done"
  /\ UNCHANGED <<inputs, module, extraction, sorting, g, j, first_import, out,
                 out_of>>

Next ==
  \/ Start /\ UNCHANGED caller
  \/ StartRaises /\ UNCHANGED caller
  \/ YieldModuleHeading /\ UNCHANGED caller
  \/ YieldImportsHeading /\ UNCHANGED caller
  \/ YieldBullet /\ UNCHANGED caller
  \/ YieldDeclHeading /\ UNCHANGED caller
  \/ YieldBody /\ UNCHANGED caller
  \/ Return /\ UNCHANGED caller

Spec == Init /\ [][Next]_vars

\* The source "import m2.n1\nimport m3.n1, m3.n2\nclass C4:\n    pass\n".
NamesTree ==
  LET stmt(i, kind, k) ==
        CHOOSE s \in {[x EXCEPT !.parent = 1] : x \in Shapes(i)} :
          /\ s.kind = kind /\ ~s.doc /\ ~s.inline /\ s.sig = 1
          /\ Len(s.names) = k
  IN <<ModuleNode(FALSE), stmt(2, "Import", 1), stmt(3, "Import", MaxAliases),
       stmt(4, "ClassDef", 0)>>

\* One source given as a string with every module argument, as a file-like
\* object with every name, and as a file-like object without a name.
InitNames ==
  /\ Created /\ Direct
  /\ import_file = TRUE
  /\ tree = Located(NamesTree)
  /\ \/ is_file = FALSE /\ filename = None /\ module_arg \in Paths
          /\ parses = TRUE
     \/ is_file = TRUE /\ filename \in {Some(p) : p \in Paths}
          /\ module_arg = DefaultModule /\ parses \in BOOLEAN
     \/ is_file = TRUE /\ filename = None /\ module_arg \in Paths
          /\ parses = TRUE
  /\ module = module_arg

SpecNames == InitNames /\ [][Next]_vars

----------------------------------------------------------------------------
(* _mini_main of __main__.py: it opens the file to analyse, writes a       *)
(* header to the imports file when one is asked for, consumes the chunks   *)
(* of yield_docstrings in a for loop, printing them or writing them to the *)
(* .md file, and writes a footer to the imports file.                      *)

\* Stand-ins of one character each for the box-drawing characters U+250C,
\* U+2514 and U+2500.
TopCorner == "/"
BottomCorner == "\\"
Horizontal == "-"

\* file_to_analyse
MainPath == <<"a", "/", "a", ".", "a">>

RECURSIVE Repeat(_, _)
\* c * n
Repeat(c, n) == IF n = 0 THEN "" ELSE c \o Repeat(c, n - 1)

\* import_first_line
ImportFirstLine == "\n" \o TopCorner \o Concat(MainPath) \o " IMPORTS\n"

\* The footer, as long as import_first_line.
ImportLastLine ==
  BottomCorner \o Repeat(Horizontal, Len(ImportFirstLine)) \o "\n\n"

\* Every source of up to DeepNodes plain statements, and a source that does
\* not parse, in the file MainPath; with and without an imports file,
\* printed or written to the .md file.
InitMain ==
  /\ Created
  /\ mm = "start" /\ emitted = ""
  /\ just_print \in BOOLEAN
  /\ is_file = TRUE /\ filename = Some(MainPath)
  /\ module_arg = DefaultModule /\ module = module_arg
  /\ import_file \in BOOLEAN
  /\ \/ parses = TRUE /\ \E k \in 1..(DeepNodes + 1) :
                             \E t \in Trees(k, FALSE) : tree = Located(t)
     \/ parses = FALSE /\ tree = <<ModuleNode(FALSE)>>

\* The files are opened and the header is written to the imports file.
MainOpen ==
  /\ mm = "start"
  /\ sink' = IF import_file THEN Append(sink, ImportFirstLine) ELSE sink
  /\ mm' = "loop"
  /\ UNCHANGED <<inputs, module, pc, requested, records, events, sorting,
                 g, j, first_import, out, out_of, emitted>>

\* One round of the for loop: the generator is resumed, and the chunk it
\* yields, if any, is printed (print adds a newline) or written to the .md.
Loop ==
  /\ mm = "loop"
  /\ emitted' = IF out' = out THEN emitted
              ELSE emitted \o out'[Len(out')]
                         \o (IF just_print THEN "\n" ELSE "")
  /\ UNCHANGED mm

\* The loop has ended: the footer is written to the imports file and the
\* files are closed.
MainFooter ==
  /\ mm = "loop" /\ pc = "done"
  /\ sink' = IF import_file THEN Append(sink, ImportLastLine) ELSE sink
  /\ mm' = "closed"
  /\ UNCHANGED <<inputs, module, pc, requested, records, events, sorting,
                 g, j, first_import, out, out_of, emitted>>

\* The SyntaxError leaves _mini_main through the ExitStack, which closes
\* the files; the footer is not written.
MainFails ==
  /\ mm = "loop" /\ pc = "raised"
  /\ mm' = "failed"
  /\ UNCHANGED <<inputs, module, pc, requested, extraction, sorting,
                 g, j, first_import, out, out_of, emitted>>

NextMain ==
  \/ MainOpen
  \/ Start /\ Loop
  \/ StartRaises /\ Loop
  \/ YieldModuleHeading /\ Loop
  \/ YieldImportsHeading /\ Loop
  \/ YieldBullet /\ Loop
  \/ YieldDeclHeading /\ Loop
  \/ YieldBody /\ Loop
  \/ Return /\ Loop
  \/ MainFooter
  \/ MainFails

SpecMain == InitMain /\ [][NextMain]_vars

----------------------------------------------------------------------------
(* Vocabulary of the properties.                                           *)

Extracted == pc \notin {"created", "raised"}
Finished == pc = "done"

KindOf(i) == tree[i].kind
IsImportNode(i) == KindOf(i) \in IMPORT_KINDS
IsDeclNode(i) == KindOf(i) \in DECLARE_KINDS
ImportNodes == {i \in 1..Len(tree) : IsImportNode(i)}
DeclNodes == {i \in 1..Len(tree) : IsDeclNode(i)}

\* The tuple yielded for node i.
RecordOf(i) == records[CHOOSE k \in 1..Len(records) : records[k].node = i]

StartsRecord(e) == e[1] \in {"heading", "bullet"}

\* The nodes whose records have been rendered so far, in rendered order.
Rendered ==
  LET starts == SelectSeq(out_of, StartsRecord)
  IN [k \in 1..Len(starts) |-> starts[k][2]]

\* The line numbers of the rendered records, in rendered order.
RenderedLines == [k \in 1..Len(Rendered) |-> RecordOf(Rendered[k]).lineno]

\* The extraction has just ended: no chunk has been delivered yet.
JustExtracted == pc = "render" /\ out = <<>>

\* The line of the statement that is the docstring of node i.
DocstringLine(i) ==
  CHOOSE k \in 1..Len(SourceLines(tree)) :
    SourceLines(tree)[k].text = "\"\"\"" \o NodeDocLine(i) \o "\"\"\""

\* The fenced block that shows the given source lines.
FencedBlock(lines) ==
  Fence \o "python\n" \o Dedent(lines) \o "\n" \o Fence \o "\n"

DocOrSentinel(i) == IF tree[i].doc THEN NodeDocLine(i) ELSE "**UNDOCUMENTED**"

\* The source lines first..last.
LinesFromTo(first, last) == SubSeq(SourceLines(tree), first, last)

\* The last line the fenced block of a function record shows.
LastFencedLine(r) ==
  IF r.lineno = NodeLineno(tree, r.node) THEN r.lineno ELSE r.lineno - 1

RECURSIVE CommaList(_)
\* The names separated by commas, built from the last name backwards.
CommaList(names) ==
  IF Len(names) = 1 THEN names[1]
  ELSE CommaList(SubSeq(names, 1, Len(names) - 1)) \o "," \o names[Len(names)]

\* The positions of an event in the order of the extraction.
EventAt(e) == {k \in 1..Len(events) : events[k] = e}

IsImportRecord(r) == IsImportNode(r.node)
ImportRecords == SelectSeq(records, IsImportRecord)

\* The stems of a path: what is left of its last component when the
\* extension is taken off.  The extension starts at the last dot of the
\* component, provided a character other than a dot comes before that dot.
Stems(p) ==
  LET n == Len(p)
      afterSlash(a) == (a = 1 \/ p[a - 1] = "/")
                       /\ \A k \in a..n : p[k] # "/"
      isExt(a, d) == /\ p[d] = "."
                     /\ \A k \in (d + 1)..n : p[k] # "."
                     /\ \E k \in a..(d - 1) : p[k] # "."
  IN {SubSeq(p, a, b) : a \in {x \in 1..(n + 1) : afterSlash(x)},
                        b \in 0..n}
     \cap
     UNION {{SubSeq(p, a, b)
               : b \in {y \in (a - 1)..n :
                          \/ y < n /\ isExt(a, y + 1)
                          \/ y = n /\ ~\E d \in a..n : isExt(a, d)}}
            : a \in {x \in 1..(n + 1) : afterSlash(x)}}

\* Section order of the specification: Module, Class, Function, Import.
CategoryGroup(kind) ==
  CASE kind = "Module" -> 0
    [] kind = "ClassDef" -> 1
    [] kind \in FUNCTION_KINDS -> 2
    [] kind \in IMPORT_KINDS -> 3

----------------------------------------------------------------------------
\* C1, as claimed: the rendered records are in non-decreasing order of
\* (category_group, line_number): a record of an earlier group comes before
\* every record of a later group, and within a group the records that are no
\* imports are non-decreasing in line_number.
C1_OrderedByGroupThenLine ==
  LET node == Rendered
      line == RenderedLines
  IN \A a, b \in 1..Len(node) :
       a < b =>
         LET ga == CategoryGroup(KindOf(node[a]))
             gb == CategoryGroup(KindOf(node[b]))
         IN \/ ga < gb
            \/ /\ ga = gb
               /\ \/ IsImportNode(node[a])
                  \/ line[a] <= line[b]

\* C1, amended: the rendered records are in non-decreasing order of
\* line_number alone.  The category is no part of the key: the Module record
\* and the import records (line 0) come before every Class, Function and
\* AsyncFunction record, and those come in the order of their line numbers
\* whatever their category.
C1_OrderedByLine ==
  LET node == Rendered
      line == RenderedLines
  IN /\ \A a, b \in 1..Len(node) : a < b => line[a] <= line[b]
     /\ \A a, b \in 1..Len(node) :
          /\ KindOf(node[a]) \in {"ClassDef"} \cup FUNCTION_KINDS
          /\ KindOf(node[b]) \in {"Module"} \cup IMPORT_KINDS
          => b < a
     /\ Finished => Len(node) = Len(records)

\* A function is rendered before a class, an import is rendered before both
\* and was found after the function.
C1_Witness ==
  /\ Finished
  /\ \E a, b, c \in 1..Len(Rendered) :
       /\ a < b /\ b < c
       /\ IsImportNode(Rendered[a])
       /\ KindOf(Rendered[b]) = "FunctionDef"
       /\ KindOf(Rendered[c]) = "ClassDef"
       /\ \E k, m \in 1..Len(records) :
            /\ k < m
            /\ records[k].node = Rendered[b]
            /\ records[m].node = Rendered[a]

\* C2: when the source has import records, the chunk "## Imports\n" is
\* delivered exactly once, right before the bullet chunk of the first
\* rendered import; when it has none, the chunk is never delivered.
C2_SingleImportsHeading ==
  LET at == {k \in 1..Len(out) : out[k] = "## Imports\n"}
      bullets == {k \in 1..Len(out) : out_of[k][1] = "bullet"}
  IN /\ Cardinality(at) <= 1
     /\ \A k \in bullets :
          /\ at # {}
          /\ out[k] = "* " \o RecordOf(out_of[k][2]).name[1]
          /\ (\A m \in bullets : k <= m) => k > 1 /\ out[k - 1] = "## Imports\n"
     /\ \A k \in at : Len(out) > k => k + 1 \in bullets
     /\ ImportNodes = {} => at = {}
     /\ Finished /\ ImportNodes # {} =>
          /\ Cardinality(at) = 1
          /\ Cardinality(bullets) = Cardinality(ImportNodes)

\* Two imports have been rendered.
C2_Witness ==
  /\ Finished
  /\ Cardinality({k \in 1..Len(out) : out_of[k][1] = "bullet"}) >= 2

\* C3: the extraction yields exactly one record for every Module, Class,
\* Function and AsyncFunction node and for every Import and ImportFrom
\* statement, at every depth, each with the name of its own node, and no
\* record for any other node.
C3_OneRecordPerNode ==
  JustExtracted =>
    /\ \A i \in 1..Len(tree) :
         Cardinality({k \in 1..Len(records) : records[k].node = i})
           = IF IsDeclNode(i) \/ IsImportNode(i) THEN 1 ELSE 0
    /\ Len(records) = Cardinality(DeclNodes) + Cardinality(ImportNodes)
    /\ \A k \in 1..Len(records) :
         LET i == records[k].node IN
           /\ i \in 1..Len(tree)
           /\ KindOf(i) = "Module" => records[k].name = None
           /\ KindOf(i) \in {"ClassDef"} \cup FUNCTION_KINDS =>
                records[k].name = Some(NodeName(tree, i))

\* A class holding a function holding a class: four records with the Module.
C3_Witness ==
  /\ JustExtracted
  /\ Len(tree) = 4
  /\ KindOf(2) = "ClassDef"
  /\ KindOf(3) = "FunctionDef" /\ tree[3].parent = 2
  /\ KindOf(4) = "ClassDef" /\ tree[4].parent = 3
  /\ Len(records) = 4

\* C4: when the source does not parse, the call fails and nothing partial is
\* observable: no record, no chunk, no line in the sink.
C4_ParseErrorLeavesNothing ==
  ~parses =>
    /\ pc \in {"created", "raised"}
    /\ requested > 0 => pc = "raised"
    /\ records = <<>> /\ events = <<>>
    /\ sink = <<>>
    /\ out = <<>>

\* The first next() has raised, with a sink supplied.
C4_Witness == pc = "raised" /\ import_file /\ requested = 1

\* C5, as claimed: the line_number of a Class, Function or AsyncFunction
\* record is the first line of the docstring of the declaration when it has
\* one, and the line of its class or def statement when it has none.
C5_LineIsDocstringOrDeclaration ==
  JustExtracted =>
    \A k \in 1..Len(records) :
      LET i == records[k].node IN
        KindOf(i) \in {"ClassDef"} \cup FUNCTION_KINDS =>
          records[k].lineno = IF tree[i].doc THEN DocstringLine(i)
                              ELSE NodeLineno(tree, i)

\* C6, as claimed: the fenced block of a Function or AsyncFunction record
\* shows the source lines from the line of the declaration through the
\* line_number of the record, both inclusive.
C6_FenceThroughAnchor ==
  JustExtracted =>
    \A k \in 1..Len(records) :
      LET r == records[k] IN
        KindOf(r.node) \in FUNCTION_KINDS =>
          r.docstring
            = FencedBlock(LinesFromTo(NodeLineno(tree, r.node), r.lineno))
              \o DocOrSentinel(r.node)

\* C6, amended: the fenced block shows the source lines from the line of the
\* declaration up to, and not including, the line_number of the record, and
\* the line of the declaration alone when the two coincide.  A signature of
\* k lines is shown in full when the body starts on a later line than the
\* signature ends; when the body starts on the last line of a signature of
\* k > 1 lines, that last line is missing.
C6_FenceStopsBeforeAnchor ==
  JustExtracted =>
    \A k \in 1..Len(records) :
      LET r == records[k]
          i == r.node
          first == NodeLineno(tree, i)
          shown == LinesFromTo(first, LastFencedLine(r))
      IN KindOf(i) \in FUNCTION_KINDS =>
           /\ r.docstring = FencedBlock(shown) \o DocOrSentinel(i)
           /\ ~tree[i].inline => shown = Header(tree, i)
           /\ tree[i].inline /\ tree[i].sig = 1 => shown = Header(tree, i)
           /\ tree[i].inline /\ tree[i].sig > 1 =>
                shown = SubSeq(Header(tree, i), 1, tree[i].sig - 1)

\* A documented function with a signature of several lines has been
\* extracted, and a function whose body is on the line of its def.
C6_Witness ==
  /\ JustExtracted
  /\ \E k, m \in 1..Len(records) :
       /\ KindOf(records[k].node) = "FunctionDef"
       /\ tree[records[k].node].sig > 1 /\ tree[records[k].node].doc
       /\ KindOf(records[m].node) = "FunctionDef"
       /\ records[m].lineno = NodeLineno(tree, records[m].node)

\* C7: every record of get_imports has line_number 0 and an empty body; its
\* name is the module path of a from-import, "?" when the from-import names
\* no module, and the comma-joined names of a plain import in their written
\* order; get_imports yields nothing for a node that is no import.
C7_ImportRecords ==
  JustExtracted =>
    /\ \A k \in 1..Len(records) :
         LET r == records[k]
             i == r.node
         IN IsImportNode(i) =>
              /\ r.lineno = 0
              /\ r.docstring = ""
              /\ KindOf(i) = "ImportFrom" /\ tree[i].names # None =>
                   r.name = Some(tree[i].names[1])
              /\ KindOf(i) = "ImportFrom" /\ tree[i].names = None =>
                   r.name = Some("?")
              /\ KindOf(i) = "Import" => r.name = Some(CommaList(tree[i].names))
    /\ \A k \in 1..Len(events) :
         /\ events[k][1] = "yield_res" => IsImportNode(events[k][2])
         /\ events[k][1] = "yield" => IsDeclNode(events[k][2])
    /\ \A i \in ImportNodes : Cardinality(EventAt(<<"yield_res", i>>)) = 1

\* A from-import without a module and a plain import of several names have
\* been extracted.
C7_Witness ==
  /\ JustExtracted
  /\ \E k, m \in 1..Len(records) :
       /\ KindOf(records[k].node) = "ImportFrom" /\ records[k].name = Some("?")
       /\ KindOf(records[m].node) = "Import"
       /\ Len(tree[records[m].node].names) = MaxAliases

\* C8: with a sink, the extraction writes exactly one line per import record,
\* the tree-drawing prefix, the name and a newline, in the order of
\* discovery, each before its record is yielded, and nothing else; without a
\* sink nothing is written, no error occurs and the records are those of a
\* run with a sink.
C8_SinkMirrorsImports ==
  /\ ~Extracted => sink = <<>>
  /\ parses /\ requested > 0 => pc # "raised"
  /\ Extracted /\ import_file =>
       /\ Len(sink) = Len(ImportRecords)
       /\ \A k \in 1..Len(sink) :
            sink[k] = TreeBranch \o ImportRecords[k].name[1] \o "\n"
       /\ \A i \in ImportNodes :
            /\ Cardinality(EventAt(<<"write", i>>)) = 1
            /\ \A w \in EventAt(<<"write", i>>) :
                 \A y \in EventAt(<<"yield_res", i>>) : w < y
       /\ \A k \in 1..Len(events) :
            events[k][1] = "write" => IsImportNode(events[k][2])
  /\ Extracted /\ ~import_file =>
       /\ sink = <<>>
       /\ \A k \in 1..Len(events) : events[k][1] # "write"
  /\ JustExtracted => records = parse_docstrings(tree, ~import_file).records

\* Two import lines have been written to a sink.
C8_Witness ==
  /\ Finished /\ import_file
  /\ Len(sink) >= 2

\* C9: the Module record, which has no name, is rendered with the fallback
\* name: the module argument for a string source, the base name of the file
\* without its extension for a file-like source; a record that has a name is
\* rendered with its own name.
C9_FallbackName ==
  \A k \in 1..Len(out) :
    LET i == out_of[k][2] IN
      /\ out_of[k][1] = "heading" /\ KindOf(i) = "Module" /\ ~is_file =>
           out[k] = "# Module '" \o Concat(module_arg) \o "'\n"
      /\ out_of[k][1] = "heading" /\ KindOf(i) = "Module" /\ is_file
           /\ filename # None =>
           \E stem \in Stems(filename[1]) :
             out[k] = "# Module '" \o Concat(stem) \o "'\n"
      /\ out_of[k][1] = "heading" /\ KindOf(i) = "ClassDef" =>
           out[k] = "\n## Class '" \o NodeName(tree, i) \o "'\nline "
                    \o ToString(RecordOf(i).lineno) \o "\n\n"
      /\ out_of[k][1] = "heading" /\ KindOf(i) = "FunctionDef" =>
           out[k] = "\n### Function '" \o NodeName(tree, i) \o "'\nline "
                    \o ToString(RecordOf(i).lineno) \o "\n\n"
      /\ out_of[k][1] = "heading" /\ KindOf(i) = "AsyncFunctionDef" =>
           out[k] = "\n### Async Function '" \o NodeName(tree, i)
                    \o "'\nline " \o ToString(RecordOf(i).lineno) \o "\n\n"
      /\ out_of[k][1] = "bullet" => out[k] = "* " \o RecordOf(i).name[1]

\* The source was the file /a.a and has been rendered as module a, with the
\* class under its own name.
C9_Witness ==
  /\ Finished
  /\ is_file /\ filename = Some(<<"/", "a", ".", "a">>)
  /\ out[1] = "# Module 'a'\n"
  /\ \E k \in 1..Len(out) : out_of[k] = <<"heading", 4>>

ChunkCount ==
  2 * Len(records) + (IF ImportNodes # {} THEN 1 ELSE 0)

\* The shape of the chunks delivered so far.
ChunkShape ==
  /\ \A k \in 1..Len(out) :
       /\ out_of[k][1] \in {"heading", "bullet", "body", "imports_heading"}
       /\ out_of[k][1] \in {"heading", "bullet"} /\ k < Len(out) =>
            /\ out_of[k + 1] = <<"body", out_of[k][2]>>
            /\ out[k + 1] = RecordOf(out_of[k][2]).docstring \o "\n"
       /\ out_of[k][1] = "body" =>
            /\ k > 1
            /\ out_of[k - 1][1] \in {"heading", "bullet"}
            /\ out_of[k - 1][2] = out_of[k][2]
       /\ out_of[k][1] = "imports_heading" => out[k] = "## Imports\n"
       /\ out_of[k][1] = "heading" <=> IsDeclNode(out_of[k][2])
                                        /\ out_of[k][1] # "body"
       /\ out_of[k][1] = "bullet" => IsImportNode(out_of[k][2])
  /\ Cardinality({k \in 1..Len(out) : out_of[k][1] = "imports_heading"}) <= 1
  /\ Len(out) <= ChunkCount
  /\ Finished =>
       /\ Len(out) = ChunkCount
       /\ out_of[Len(out)][1] = "body"
       /\ Len(Rendered) = Len(records)
       /\ \A i \in DeclNodes \cup ImportNodes :
            Cardinality({k \in 1..Len(Rendered) : Rendered[k] = i}) = 1

\* Every chunk is out: the generator has returned, or it is suspended after
\* the last body chunk and returns on the next request without a chunk.
AtEnd == \/ pc = "done"
         \/ pc = "render" /\ g > Len(grouped)

\* C11: the chunks are, for each of the N records in rendered order, its
\* heading chunk and right after it a body chunk of the body text and a
\* newline; the only other chunk is the one Imports heading; the sequence
\* has never more than 2N chunks, and one more when there is an import, and
\* it ends with exactly that many, right after the body chunk of the last
\* record.
C11_ChunkSequence ==
  /\ ChunkShape
  /\ Extracted => (Len(out) = ChunkCount <=> AtEnd)

\* A source with an import and two declarations has been rendered in full:
\* seven chunks.
C11_Witness ==
  /\ Finished
  /\ ImportNodes # {}
  /\ Len(records) = 3 /\ Len(out) = 7

\* The place of the record of node i in the order of discovery.
Discovered(i) == CHOOSE k \in 1..Len(records) : records[k].node = i

\* The nodes of the bullets delivered so far, in the order of delivery.
Bullets ==
  LET IsBullet(e) == e[1] = "bullet"
      bs == SelectSeq(out_of, IsBullet)
  IN [k \in 1..Len(bs) |-> bs[k][2]]

\* The import nodes in the order get_imports yielded their records.
YieldedImports ==
  LET IsYieldRes(e) == e[1] = "yield_res"
      ys == SelectSeq(events, IsYieldRes)
  IN [k \in 1..Len(ys) |-> ys[k][2]]

\* C12: rendered records of equal line_number are in the order of their
\* discovery; the bullets are the import records in the order get_imports
\* yielded them.
C12_TiesKeepDiscoveryOrder ==
  LET node == Rendered
      line == RenderedLines
  IN /\ \A a, b \in 1..Len(node) :
          a < b /\ line[a] = line[b] =>
            Discovered(node[a]) < Discovered(node[b])
     /\ Len(Bullets) <= Len(YieldedImports)
     /\ \A k \in 1..Len(Bullets) : Bullets[k] = YieldedImports[k]
     /\ Finished => Bullets = YieldedImports

\* An import nested in a class or function has been rendered after an import
\* that follows it in the source.
C12_Witness ==
  /\ Finished
  /\ \E a, b \in 1..Len(Bullets) :
       /\ a < b
       /\ NodeLineno(tree, Bullets[a]) > NodeLineno(tree, Bullets[b])
       /\ tree[Bullets[b]].parent # 1

\* The generator is suspended at a yield, or has not started: the consumer
\* has every chunk it asked for.
Suspended == requested = Len(out) /\ pc \notin {"done", "raised"}

\* What a step of the generator does to the chunks and the requests.
OnDemand ==
  /\ requested' \in {requested, requested + 1}
  /\ out' # out =>
       /\ Len(out') = Len(out) + 1
       /\ SubSeq(out', 1, Len(out)) = out
       /\ requested' = Len(out')
  /\ Suspended => requested' = requested + 1
  /\ pc \in {"done", "raised"} => UNCHANGED vars

\* C13: the chunks are made on demand.  There are never more chunks than
\* requests; a step makes at most one chunk, the one the latest request
\* asked for; a suspended generator moves only with a new request, so that a
\* consumer that stops asking after k chunks leaves it with k chunks made.
C13_ChunksOnDemand ==
  /\ [](Len(out) <= requested /\ requested <= Len(out) + 1)
  /\ [][OnDemand]_vars

\* The consumer holds three chunks, the generator is suspended, and chunks
\* are left that have not been made.
C13_Witness ==
  /\ Suspended
  /\ Len(out) = 3
  /\ Len(out) < ChunkCount

\* The chunks that are headings of Class, Function and AsyncFunction records.
DeclHeadings ==
  {k \in 1..Len(out) : /\ out_of[k][1] = "heading"
                       /\ KindOf(out_of[k][2]) # "Module"}

\* The chunks that are headings of Module records.
ModuleHeadings ==
  {k \in 1..Len(out) : /\ out_of[k][1] = "heading"
                       /\ KindOf(out_of[k][2]) = "Module"}

\* C14: for a source that parses, the first chunk is the Module heading,
\* exactly one Module record is rendered, and every import bullet is
\* delivered before the heading of any Class, Function or AsyncFunction
\* record: the Module and the imports have line_number 0, every Class,
\* Function and AsyncFunction record has a line_number of 1 or more.
C14_ModuleThenImportsFirst ==
  parses =>
    /\ Extracted =>
         /\ Cardinality({k \in 1..Len(records) :
                           KindOf(records[k].node) = "Module"}) = 1
         /\ \A k \in 1..Len(records) :
              IF KindOf(records[k].node) \in {"Module"} \cup IMPORT_KINDS
              THEN records[k].lineno = 0
              ELSE records[k].lineno >= 1
    /\ Len(out) >= 1 =>
         /\ out[1] = "# Module '" \o Concat(module) \o "'\n"
         /\ ModuleHeadings = {1}
    /\ \A m \in DeclHeadings :
         /\ \A k \in 1..Len(out) : out_of[k][1] = "bullet" => k < m
         /\ Len(Bullets) = Cardinality(ImportNodes)

\* A class, and an import that follows it in the source, have been rendered:
\* the bullet of the import came before the heading of the class.
C14_Witness ==
  /\ Finished
  /\ \E m \in DeclHeadings :
       \E k \in 1..Len(out) :
         /\ out_of[k][1] = "bullet"
         /\ k < m
         /\ out_of[k][2] > out_of[m][2]

\* The lines get_imports writes for the import records, in their order.
ImportLines ==
  [k \in 1..Len(ImportRecords) |->
     TreeBranch \o ImportRecords[k].name[1] \o "\n"]

RECURSIVE Shown(_)
\* What the for loop of _mini_main has printed, or written to the .md, when
\* it has consumed the given chunks.
Shown(chunks) ==
  IF chunks = <<>> THEN ""
  ELSE Shown(SubSeq(chunks, 1, Len(chunks) - 1))
       \o chunks[Len(chunks)] \o (IF just_print THEN "\n" ELSE "")

\* What holds of the sink in every state of a run of _mini_main.
ExtractionFirst ==
  /\ pc = "created" =>
       /\ records = <<>> /\ events = <<>> /\ out = <<>>
       /\ sink = IF import_file /\ mm # "start" THEN <<ImportFirstLine>>
                 ELSE <<>>
  /\ Len(out) >= 1 =>
       /\ Len(records) = Cardinality(DeclNodes) + Cardinality(ImportNodes)
       /\ \A i \in ImportNodes : EventAt(<<"yield_res", i>>) # {}
       /\ import_file =>
            /\ Len(sink) >= 1 + Len(ImportLines)
            /\ SubSeq(sink, 1, 1 + Len(ImportLines))
                 = <<ImportFirstLine>> \o ImportLines
  /\ emitted = Shown(out)
  /\ mm = "closed" =>
       /\ pc = "done"
       /\ sink = IF import_file
                 THEN <<ImportFirstLine>> \o ImportLines \o <<ImportLastLine>>
                 ELSE <<>>
  /\ mm = "failed" =>
       sink = IF import_file THEN <<ImportFirstLine>> ELSE <<>>

\* When the sink is written in a run of _mini_main: by _mini_main before the
\* generator is made, by the first resumption of the generator, and by
\* _mini_main after the generator has returned.
SinkWrittenOutsideChunks ==
  sink' # sink =>
    \/ mm = "start" /\ pc = "created"
    \/ pc = "created" /\ out' = <<>>
    \/ pc = "done" /\ mm' = "closed"

\* C15: the whole extraction runs before any rendering.  When the first
\* chunk is delivered every node has been visited and every line of the
\* sink has been written; no line is written between or after chunks; the
\* sink of _mini_main receives the header, the import lines and the footer
\* in this order, whether the chunks are printed or written to the .md; and
\* as long as no chunk has been asked for, nothing is parsed or written by
\* yield_docstrings.
C15_ExtractionBeforeRendering ==
  /\ [](ExtractionFirst)
  /\ [][SinkWrittenOutsideChunks]_vars

\* _mini_main has printed a source with two imports and has closed the
\* imports file with header, two import lines and footer.
C15_Witness ==
  /\ mm = "closed" /\ just_print /\ import_file
  /\ Len(ImportRecords) = 2
  /\ Len(sink) = 4
  /\ Len(out) >= 7

=============================================================================
